---- MODULE Spec2Model ----
(***************************************************************************)
(* A model of src/config/input.rs: the Input value of a chat turn, its two *)
(* constructors (from_str, from_files with load_documents), its mutators   *)
(* and its projection views (text, summary, render, message_content).      *)
(*                                                                         *)
(* A Rust String is a sequence of tokens; a token is a TLA+ string that    *)
(* stands for the literal bytes it spells ("a", "http://", ".png").        *)
(* Option<T> is a sequence of length 0 (None) or 1 (Some).                 *)
(***************************************************************************)
EXTENDS Integers, Sequences, FiniteSets, TLC

VARIABLES
    pc,              \* "new" | "load" | "assemble" | "ready" | "failed"
    config,          \* the shared GlobalConfig: role, session, agent, rag, last_message
    world,           \* what the collaborators answer: home, cwd, commands, files, urls
    arg_text,        \* constructor argument text / raw_text
    arg_paths,       \* constructor argument paths (from_files)
    arg_role,        \* constructor argument role : Option<Role>
    raw_paths, external_cmds, local_paths, remote_urls, with_last_reply,
    files,           \* load_documents' files : Vec<(kind, path, contents)>
    error,           \* the Err of from_files, outermost context first
    text, raw, patched_text, last_reply, continue_output, regenerate,
    medias, data_urls, tool_calls, rag_name, role, with_session, with_agent,
    out              \* the value last returned by a projection view

argVars == <<arg_text, arg_paths, arg_role>>
localVars == <<raw_paths, external_cmds, local_paths, remote_urls, with_last_reply>>
inputVars == <<text, raw, patched_text, last_reply, continue_output, regenerate,
               medias, data_urls, tool_calls, rag_name, role, with_session, with_agent>>
vars == <<pc, config, world, argVars, localVars, files, error, inputVars, out>>

-----------------------------------------------------------------------------
(* Bounds of the model *)

MaxPaths == 2
MaxRefLen == 3
MaxRun == 50
MaxContinue == 1
MaxToolMerges == 1

(* Program constants *)

SUMMARY_MAX_WIDTH == 80
IMAGE_EXTS == {"png", "jpeg", "jpg", "webp", "gif"}
MEDIA_URL_EXTENSION == "media_url"

-----------------------------------------------------------------------------
(* Options and strings *)

\* The backtick and the apostrophe, one byte each, are spelled out.
BACKTICK == "BACKTICK"
APOSTROPHE == "APOSTROPHE"
TokenLen(t) == IF t \in {BACKTICK, APOSTROPHE} THEN 1 ELSE Len(t)

None == <<>>
Some(v) == <<v>>

EmptyMap == [k \in {} |-> <<>>]

RECURSIVE ByteLenFrom(_, _)
ByteLenFrom(s, i) == IF i > Len(s) THEN 0 ELSE TokenLen(s[i]) + ByteLenFrom(s, i + 1)
ByteLen(s) == ByteLenFrom(s, 1)

StartsWith(s, p) == Len(s) >= Len(p) /\ SubSeq(s, 1, Len(p)) = p
EndsWith(s, p) == Len(s) >= Len(p) /\ SubSeq(s, Len(s) - Len(p) + 1, Len(s)) = p
Drop(s, n) == SubSeq(s, n + 1, Len(s))

RECURSIVE JoinFrom(_, _, _)
JoinFrom(parts, sep, i) ==
    IF i > Len(parts) THEN <<>>
    ELSE IF i = Len(parts) THEN parts[i]
    ELSE parts[i] \o sep \o JoinFrom(parts, sep, i + 1)
Join(parts, sep) == JoinFrom(parts, sep, 1)

\* All sequences over S of length at most n.
SeqsUpTo(S, n) == UNION {[1..k -> S] : k \in 0..n}

Rep(c, n) == [i \in 1..n |-> c]

-----------------------------------------------------------------------------
(* Collaborators that live outside input.rs *)

IsUrl(path) == Len(path) >= 1 /\ path[1] \in {"http://", "https://"}

Sha256(s) == <<"sha256:">> \o s

Base64Byte(b) ==
    CASE b = "X" -> "WA"
      [] b = "Y" -> "WQ"
      [] OTHER -> "AA"
Base64Encode(buffer) == [i \in 1..Len(buffer) |-> Base64Byte(buffer[i])]

GetPatchExtension(path) ==
    IF path = <<>> THEN None
    ELSE CASE path[Len(path)] \in {".png", ".PNG"} -> Some("png")
           [] path[Len(path)] = ".gif" -> Some("gif")
           [] path[Len(path)] = ".txt" -> Some("txt")
           [] OTHER -> None

ExpandGlobPaths(paths) == paths

PathJoin(base, file) ==
    IF StartsWith(file, <<"/">>) THEN file ELSE base \o <<"/">> \o file

Absolutize(v) ==
    IF StartsWith(v, <<"/">>) THEN Some(v)
    ELSE IF world.cwd = None THEN None
    ELSE Some(world.cwd[1] \o <<"/">> \o v)

ExtractRole(cfg) == cfg.role

-----------------------------------------------------------------------------
(* resolve_local_path and the classification loop of from_files *)

Sentinel == <<"%", "%">>

ResolveLocalPath(path) ==
    IF IsUrl(path) THEN None
    ELSE IF StartsWith(path, <<"~", "/">>) /\ world.home # None
         THEN Some(PathJoin(world.home[1], Drop(path, 2)))
         ELSE Some(path)

IsShellCommandLoose(v) ==
    ByteLen(v) >= 2 /\ StartsWith(v, <<BACKTICK>>) /\ EndsWith(v, <<BACKTICK>>)

IsShellCommand(v) ==
    ByteLen(v) > 2 /\ StartsWith(v, <<BACKTICK>>) /\ EndsWith(v, <<BACKTICK>>)

NoRefs == [raw_paths |-> <<>>, external_cmds |-> <<>>, local_paths |-> <<>>,
           remote_urls |-> <<>>, with_last_reply |-> FALSE]

ClassifyPath(path, acc) ==
    LET r == ResolveLocalPath(path) IN
    IF r # None
    THEN LET v == r[1] IN
         IF v = Sentinel
         THEN [acc EXCEPT !.with_last_reply = TRUE, !.raw_paths = Append(@, v)]
         ELSE IF IsShellCommand(v)
         THEN [acc EXCEPT !.external_cmds = Append(@, SubSeq(v, 2, Len(v) - 1)),
                          !.raw_paths = Append(@, v)]
         ELSE [acc EXCEPT !.raw_paths = IF Absolutize(v) # None
                                        THEN Append(@, Absolutize(v)[1]) ELSE @,
                          !.local_paths = Append(@, v)]
    ELSE [acc EXCEPT !.raw_paths = Append(@, path),
                     !.remote_urls = Append(@, path)]

RECURSIVE ClassifyPaths(_, _, _)
ClassifyPaths(paths, i, acc) ==
    IF i > Len(paths) THEN acc
    ELSE ClassifyPaths(paths, i + 1, ClassifyPath(paths[i], acc))

-----------------------------------------------------------------------------
(* load_documents *)

IsImage(path) ==
    IF GetPatchExtension(path) = None THEN FALSE
    ELSE GetPatchExtension(path)[1] \in IMAGE_EXTS

MimeType(extension) ==
    CASE extension = "png" -> Some("image/png")
      [] extension \in {"jpg", "jpeg"} -> Some("image/jpeg")
      [] extension = "webp" -> Some("image/webp")
      [] extension = "gif" -> Some("image/gif")
      [] OTHER -> None

Ok(v) == [ok |-> TRUE, val |-> v, err |-> <<>>]
Err(chain) == [ok |-> FALSE, val |-> <<>>, err |-> chain]
WithContext(r, msg) == IF r.ok THEN r ELSE Err(<<msg>> \o r.err)

ReadFile(path) ==
    IF path \in DOMAIN world.bytes /\ world.bytes[path] # None
    THEN Ok(world.bytes[path][1])
    ELSE Err(<<<<"No such file or directory">>>>)

ReadMediaToDataUrl(image_path) ==
    LET ext == GetPatchExtension(image_path)
        mime == MimeType(IF ext = None THEN "" ELSE ext[1])
    IN  IF mime = None THEN Err(<<<<"Unexpected media type">>>>)
        ELSE IF ~ReadFile(image_path).ok THEN ReadFile(image_path)
        ELSE Ok(<<"data:", mime[1], ";base64,">> \o Base64Encode(ReadFile(image_path).val))

LoadFile(file_path) == ReadFile(file_path)

Fetch(file_url) ==
    IF file_url \in DOMAIN world.fetch /\ world.fetch[file_url] # None
    THEN Ok(world.fetch[file_url][1])
    ELSE Err(<<<<"error sending request">>>>)

RunCommandWithOutput(cmd) ==
    IF cmd \in DOMAIN world.cmd /\ world.cmd[cmd].spawned
    THEN Ok(world.cmd[cmd])
    ELSE Err(<<<<"No such file or directory">>>>)

FailedToRun(cmd, err) == <<"Failed to run ", BACKTICK>> \o cmd \o <<BACKTICK, "\n">> \o err

CommandErrorStdoutOnly(stdout, stderr) == stdout

CommandError(stdout, stderr) == IF stderr # <<>> THEN stderr ELSE stdout

\* HashMap::insert: the value stored under an existing key is replaced.
MapInsertIfAbsent(m, k, v) ==
    [x \in DOMAIN m \cup {k} |-> IF x \in DOMAIN m THEN m[x] ELSE v]

MapInsert(m, k, v) ==
    [x \in DOMAIN m \cup {k} |-> IF x = k THEN v ELSE m[x]]

Loaded(f, m, d) == [files |-> f, medias |-> m, data_urls |-> d]

RECURSIVE RunCmds(_, _, _)
RunCmds(cmds, i, acc) ==
    IF i > Len(cmds) THEN Ok(acc)
    ELSE LET r == RunCommandWithOutput(cmds[i]) IN
         IF ~r.ok THEN r
         ELSE IF ~r.val.success
         THEN Err(<<FailedToRun(cmds[i], CommandError(r.val.stdout, r.val.stderr))>>)
         ELSE RunCmds(cmds, i + 1,
                  [acc EXCEPT !.files = Append(@, <<"CMD", cmds[i], r.val.stdout>>)])

RECURSIVE LoadLocalFiles(_, _, _)
LoadLocalFiles(local_files, i, acc) ==
    IF i > Len(local_files) THEN Ok(acc)
    ELSE LET file_path == local_files[i] IN
         IF IsImage(file_path)
         THEN LET r == WithContext(ReadMediaToDataUrl(file_path),
                           <<"Unable to read media file ", APOSTROPHE>> \o file_path \o <<APOSTROPHE>>)
              IN  IF ~r.ok THEN r
                  ELSE LoadLocalFiles(local_files, i + 1,
                           [acc EXCEPT !.data_urls = MapInsert(@, Sha256(r.val), file_path),
                                       !.medias = Append(@, r.val)])
         ELSE LET r == WithContext(LoadFile(file_path),
                           <<"Unable to read file ", APOSTROPHE>> \o file_path \o <<APOSTROPHE>>)
              IN  IF ~r.ok THEN r
                  ELSE LoadLocalFiles(local_files, i + 1,
                           [acc EXCEPT !.files = Append(@, <<"FILE", file_path, r.val>>)])

RECURSIVE LoadRemoteUrls(_, _, _)
LoadRemoteUrls(urls, i, acc) ==
    IF i > Len(urls) THEN Ok(acc)
    ELSE LET file_url == urls[i]
             r == WithContext(Fetch(file_url),
                      <<"Failed to load url ", APOSTROPHE>> \o file_url \o <<APOSTROPHE>>)
         IN  IF ~r.ok THEN r
             ELSE IF r.val.extension = MEDIA_URL_EXTENSION
             THEN LoadRemoteUrls(urls, i + 1,
                      [acc EXCEPT !.data_urls = MapInsert(@, Sha256(r.val.contents), file_url),
                                  !.medias = Append(@, r.val.contents)])
             ELSE LoadRemoteUrls(urls, i + 1,
                      [acc EXCEPT !.files = Append(@, <<"URL", file_url, r.val.contents>>)])

LoadDocuments(cmds, locals, urls) ==
    LET a == RunCmds(cmds, 1, Loaded(<<>>, <<>>, EmptyMap)) IN
    IF ~a.ok THEN a
    ELSE LET b == LoadLocalFiles(ExpandGlobPaths(locals), 1, a.val) IN
         IF ~b.ok THEN b
         ELSE LoadRemoteUrls(urls, 1, b.val)

-----------------------------------------------------------------------------
(* resolve_role and the constructors *)

ResolveRole(cfg, r) ==
    IF r # None THEN <<r[1], FALSE, FALSE>>
    ELSE <<ExtractRole(cfg), cfg.session # None, cfg.agent # None>>

\* Input::from_str
FromStr ==
    /\ pc = "new"
    /\ pc' = "ready"
    /\ text' = arg_text
    /\ raw' = <<arg_text, <<>>>>
    /\ patched_text' = None
    /\ last_reply' = None
    /\ continue_output' = None
    /\ regenerate' = FALSE
    /\ medias' = <<>>
    /\ data_urls' = EmptyMap
    /\ tool_calls' = None
    /\ rag_name' = None
    /\ role' = ResolveRole(config, arg_role)[1]
    /\ with_session' = ResolveRole(config, arg_role)[2]
    /\ with_agent' = ResolveRole(config, arg_role)[3]
    /\ UNCHANGED <<config, world, argVars, localVars, files, error, out>>

\* Input::from_files, lines 63-90: the references are sorted into their classes.
FromFilesClassify ==
    /\ pc = "new"
    /\ LET c == ClassifyPaths(arg_paths, 1, NoRefs) IN
         /\ raw_paths' = c.raw_paths
         /\ external_cmds' = c.external_cmds
         /\ local_paths' = c.local_paths
         /\ remote_urls' = c.remote_urls
         /\ with_last_reply' = c.with_last_reply
    /\ pc' = "load"
    /\ UNCHANGED <<config, world, argVars, files, error, inputVars, out>>

\* Input::from_files, lines 91-94: load_documents, or the error it ends with.
FromFilesLoad ==
    /\ pc = "load"
    /\ LET r == WithContext(LoadDocuments(external_cmds, local_paths, remote_urls),
                            <<"Failed to load files">>)
       IN  IF r.ok
           THEN /\ pc' = "assemble"
                /\ files' = r.val.files
                /\ medias' = r.val.medias
                /\ data_urls' = r.val.data_urls
                /\ error' = error
           ELSE /\ pc' = "failed"
                /\ error' = r.err
                /\ UNCHANGED <<files, medias, data_urls>>
    /\ UNCHANGED <<config, world, argVars, localVars, out,
                   text, raw, patched_text, last_reply, continue_output, regenerate,
                   tool_calls, rag_name, role, with_session, with_agent>>

ResolveLastReply(cfg) ==
    IF cfg.last_message = None THEN None
    ELSE IF cfg.last_message[1].output # <<>> THEN Some(cfg.last_message[1].output)
    ELSE cfg.last_message[1].input_last_reply

NoContentIgnoringLoads(reply, fs, ms) == reply = None

NoContent(reply, fs, ms) == reply = None /\ fs = <<>> /\ ms = <<>>

Banner(file) ==
    <<"\n", "============ ", file[1], ": ">> \o file[2] \o <<" ============", "\n">> \o file[3]

AssembleTexts(raw_text, reply, fs) ==
    (IF raw_text # <<>> THEN <<raw_text>> ELSE <<>>)
    \o (IF reply # None THEN <<<<"\n">> \o reply[1] \o <<"\n">>>> ELSE <<>>)
    \o [i \in 1..Len(fs) |-> Banner(fs[i])]

\* Input::from_files, lines 95-136: the last reply, the text and the Input.
FromFilesAssemble ==
    /\ pc = "assemble"
    /\ LET reply == IF with_last_reply THEN ResolveLastReply(config) ELSE None IN
       IF with_last_reply /\ NoContent(reply, files, medias)
       THEN /\ pc' = "failed"
            /\ error' = <<<<"No last reply found">>>>
            /\ UNCHANGED <<text, raw, last_reply, role, with_session, with_agent>>
       ELSE /\ pc' = "ready"
            /\ text' = Join(AssembleTexts(arg_text, reply, files), <<"\n">>)
            /\ raw' = <<arg_text, raw_paths>>
            /\ last_reply' = reply
            /\ role' = ResolveRole(config, arg_role)[1]
            /\ with_session' = ResolveRole(config, arg_role)[2]
            /\ with_agent' = ResolveRole(config, arg_role)[3]
            /\ error' = error
    /\ patched_text' = None
    /\ continue_output' = None
    /\ regenerate' = FALSE
    /\ tool_calls' = None
    /\ rag_name' = None
    /\ UNCHANGED <<config, world, argVars, localVars, files, out, medias, data_urls>>

-----------------------------------------------------------------------------
(* The mutators of a constructed Input *)

\* Input::clear_patch
ClearPatch ==
    /\ pc = "ready"
    /\ patched_text' = None
    /\ UNCHANGED <<pc, config, world, argVars, localVars, files, error, out,
                   text, raw, last_reply, continue_output, regenerate, medias,
                   data_urls, tool_calls, rag_name, role, with_session, with_agent>>

SetTexts == {<<>>, <<"b">>}

\* Input::set_text
SetText ==
    /\ pc = "ready"
    /\ \E t \in SetTexts : text' = t
    /\ UNCHANGED <<pc, config, world, argVars, localVars, files, error, out,
                   raw, patched_text, last_reply, continue_output, regenerate, medias,
                   data_urls, tool_calls, rag_name, role, with_session, with_agent>>

\* Input::set_continue_output
SetContinueOutput ==
    /\ pc = "ready"
    /\ \E output \in {<<"o">>} :
          LET joined == IF continue_output # None THEN continue_output[1] \o output
                        ELSE output
          IN  /\ Len(joined) <= MaxContinue
              /\ continue_output' = Some(joined)
    /\ UNCHANGED <<pc, config, world, argVars, localVars, files, error, out,
                   text, raw, patched_text, last_reply, regenerate, medias,
                   data_urls, tool_calls, rag_name, role, with_session, with_agent>>

AdoptedRoleUnguarded(current, extracted) == extracted

AdoptedRole(current, extracted) ==
    IF extracted.name = current.name THEN extracted ELSE current

\* Input::set_regenerate
SetRegenerate ==
    /\ pc = "ready"
    /\ role' = AdoptedRole(role, ExtractRole(config))
    /\ regenerate' = TRUE
    /\ UNCHANGED <<pc, config, world, argVars, localVars, files, error, out,
                   text, raw, patched_text, last_reply, continue_output, medias,
                   data_urls, tool_calls, rag_name, with_session, with_agent>>

\* What Config::search_rag may answer: the rendered template, or an error.
RagResults == {Ok(<<"p">>), Err(<<<<"search failed">>>>)}

PatchedWithoutName(name, result) == <<Some(result), None>>

Patched(name, result) == <<Some(result), Some(name)>>

\* Input::use_embeddings
UseEmbeddings ==
    /\ pc = "ready"
    /\ IF text = <<>> \/ config.rag = None
       THEN UNCHANGED <<patched_text, rag_name>>
       ELSE \E result \in RagResults :
               IF result.ok
               THEN /\ patched_text' = Patched(config.rag[1], result.val)[1]
                    /\ rag_name' = Patched(config.rag[1], result.val)[2]
               ELSE UNCHANGED <<patched_text, rag_name>>
    /\ UNCHANGED <<pc, config, world, argVars, localVars, files, error, out,
                   text, raw, last_reply, continue_output, regenerate, medias,
                   data_urls, tool_calls, role, with_session, with_agent>>

NewToolCalls(tool_results, output) == [tool_results |-> tool_results, text |-> output]
MergeToolCalls(exist, tool_results, output) ==
    [tool_results |-> exist.tool_results \o tool_results, text |-> exist.text \o output]

\* Input::merge_tool_results
MergeToolResults ==
    /\ pc = "ready"
    /\ \E output \in {<<"t">>} :
          LET merged == IF tool_calls # None
                        THEN MergeToolCalls(tool_calls[1], <<"call">>, output)
                        ELSE NewToolCalls(<<"call">>, output)
          IN  /\ Len(merged.tool_results) <= MaxToolMerges
              /\ tool_calls' = Some(merged)
    /\ UNCHANGED <<pc, config, world, argVars, localVars, files, error, out,
                   text, raw, patched_text, last_reply, continue_output, regenerate,
                   medias, data_urls, rag_name, role, with_session, with_agent>>

-----------------------------------------------------------------------------
(* The ambient configuration, which other parts of the program change *)

R1 == [name |-> "r1", temperature |-> 1]
R1Hot == [name |-> "r1", temperature |-> 2]
R2 == [name |-> "r2", temperature |-> 1]
Roles == {R1, R1Hot, R2}

ConfigUseRole ==
    /\ \E r \in Roles : r # config.role /\ config' = [config EXCEPT !.role = r]
    /\ UNCHANGED <<pc, world, argVars, localVars, files, error, inputVars, out>>

ConfigSession ==
    /\ config' = [config EXCEPT !.session = IF @ = None THEN Some("s") ELSE None]
    /\ UNCHANGED <<pc, world, argVars, localVars, files, error, inputVars, out>>

ConfigAgent ==
    /\ config' = [config EXCEPT !.agent = IF @ = None THEN Some("g") ELSE None]
    /\ UNCHANGED <<pc, world, argVars, localVars, files, error, inputVars, out>>

ConfigRag ==
    /\ config' = [config EXCEPT !.rag = IF @ = None THEN Some("rag1") ELSE None]
    /\ UNCHANGED <<pc, world, argVars, localVars, files, error, inputVars, out>>

-----------------------------------------------------------------------------
(* The projection views *)

\* Input::text
Text == IF patched_text # None THEN patched_text[1] ELSE text

\* Input::is_empty
IsEmpty == text = <<>> /\ medias = <<>>

\* One token of a summarised text is one character: "a" a narrow letter, "CJK" a
\* wide ideograph, " " a space, "\n" a line feed, "BEL" a control character that is
\* no white space, "ZWJ" a zero-width joiner. Any other token is a run of narrow
\* characters.
IsControl(c) == c \in {"\n", "BEL"}
IsWhitespace(c) == c \in {" ", "\n"}
CharWidthCjk(c) ==
    CASE IsControl(c) -> None
      [] c = "CJK" -> Some(2)
      [] c = "ZWJ" -> Some(0)
      [] OTHER -> Some(TokenLen(c))
UnwrapOr(opt, default) == IF opt = None THEN default ELSE opt[1]

RECURSIVE WidthFrom(_, _)
WidthFrom(s, i) ==
    IF i > Len(s) THEN 0 ELSE UnwrapOr(CharWidthCjk(s[i]), 0) + WidthFrom(s, i + 1)
\* str::width_cjk
StrWidthCjk(s) == WidthFrom(s, 1)

RECURSIVE TrimStart(_, _)
TrimStart(s, i) == IF i <= Len(s) /\ IsWhitespace(s[i]) THEN TrimStart(s, i + 1) ELSE i
RECURSIVE TrimEnd(_, _)
TrimEnd(s, j) == IF j >= 1 /\ IsWhitespace(s[j]) THEN TrimEnd(s, j - 1) ELSE j
\* str::trim
Trim(s) == SubSeq(s, TrimStart(s, 1), TrimEnd(s, Len(s)))

Blanked(s) == [i \in 1..Len(s) |-> IF IsControl(s[i]) THEN " " ELSE s[i]]

SummaryRoomWithoutEllipsis == SUMMARY_MAX_WIDTH

SummaryRoom == SUMMARY_MAX_WIDTH - 3

RECURSIVE SummaryLoop(_, _, _)
SummaryLoop(s, i, sum_width) ==
    IF i > Len(s) THEN s
    ELSE LET w == sum_width + UnwrapOr(CharWidthCjk(s[i]), 1) IN
         IF w > SummaryRoom THEN SubSeq(s, 1, i - 1) \o <<".", ".", ".">>
         ELSE SummaryLoop(s, i + 1, w)

SummaryOf(t) ==
    LET s == Blanked(Trim(t)) IN
    IF StrWidthCjk(s) > SUMMARY_MAX_WIDTH THEN SummaryLoop(s, 1, 0) ELSE s

\* Input::summary
Summary == SummaryOf(text)

\* Input::raw
Raw ==
    LET segments == IF raw[2] # <<>> THEN <<<<".file">>>> \o raw[2] ELSE <<>>
        tail == IF raw[1] # <<>>
                THEN (IF segments # <<>> THEN <<<<"--">>>> ELSE <<>>) \o <<raw[1]>>
                ELSE <<>>
    IN  Join(segments \o tail, <<" ">>)

\* resolve_data_url
ResolveDataUrl(urls, data_url) ==
    IF StartsWith(data_url, <<"data:">>)
    THEN IF Sha256(data_url) \in DOMAIN urls THEN urls[Sha256(data_url)] ELSE data_url
    ELSE data_url

\* Input::render
Render ==
    IF medias = <<>> THEN Text
    ELSE LET tail_text == IF Text = <<>> THEN <<>> ELSE <<" -- ">> \o Text
             shown == [i \in 1..Len(medias) |-> ResolveDataUrl(data_urls, medias[i])]
         IN  <<".file ">> \o Join(shown, <<" ">>) \o tail_text

TextContent(t) == <<"Text", t>>
ArrayContent(list) == <<"Array", list>>
TextPart(t) == <<"text", t>>
ImageUrlPart(url) == <<"image_url", url>>

\* Input::message_content
MessageContent ==
    IF medias = <<>> THEN TextContent(Text)
    ELSE LET list == [i \in 1..Len(medias) |-> ImageUrlPart(medias[i])] IN
         IF text # <<>> THEN ArrayContent(<<TextPart(Text)>> \o list)
         ELSE ArrayContent(list)

\* A caller asks for the summary and keeps what it returns.
CallSummary ==
    /\ pc = "ready"
    /\ out = None
    /\ out' = Some(Summary)
    /\ UNCHANGED <<pc, config, world, argVars, localVars, files, error, inputVars>>

-----------------------------------------------------------------------------
(* The references, the collaborators' answers and the initial states *)

CmdText1 == <<"c", "1">>
CmdText2 == <<"c", "2">>
CmdRef1 == <<BACKTICK>> \o CmdText1 \o <<BACKTICK>>
CmdRef2 == <<BACKTICK>> \o CmdText2 \o <<BACKTICK>>
TxtA == <<"a", ".txt">>
TxtMissing == <<"x", ".txt">>
ImgP == <<"p", ".png">>
ImgQ == <<"q", ".PNG">>
UrlText == <<"http://", "t">>
UrlMedia == <<"http://", "m">>
FileRefs == {Sentinel, CmdRef1, CmdRef2, TxtA, TxtMissing, ImgP, ImgQ, UrlText, UrlMedia}

PayloadY == <<"data:", "image/png", ";base64,", "WQ">>

CmdOutcomes ==
    {[spawned |-> TRUE, success |-> TRUE, stdout |-> <<"o1">>, stderr |-> <<>>],
     [spawned |-> TRUE, success |-> FALSE, stdout |-> <<"o1">>, stderr |-> <<"e1">>],
     [spawned |-> TRUE, success |-> FALSE, stdout |-> <<"o1">>, stderr |-> <<>>],
     [spawned |-> FALSE, success |-> FALSE, stdout |-> <<>>, stderr |-> <<>>]}

WorldWith(home, c1) ==
    [home |-> home,
     cwd |-> Some(<<"/", "w">>),
     cmd |-> (CmdText1 :> c1) @@
             (CmdText2 :> [spawned |-> TRUE, success |-> TRUE,
                           stdout |-> <<"o2">>, stderr |-> <<"warn">>]),
     bytes |-> (TxtA :> Some(<<"A">>)) @@ (TxtMissing :> None) @@
               (ImgP :> Some(<<"X">>)) @@ (ImgQ :> Some(<<"X">>)),
     fetch |-> (UrlText :> Some([contents |-> <<"T">>, extension |-> "html"])) @@
               (UrlMedia :> Some([contents |-> PayloadY,
                                  extension |-> MEDIA_URL_EXTENSION]))]

HomeDir == Some(<<"/", "h">>)
Worlds == {WorldWith(HomeDir, c1) : c1 \in CmdOutcomes}
DefaultWorld ==
    WorldWith(HomeDir, [spawned |-> TRUE, success |-> TRUE,
                        stdout |-> <<"o1">>, stderr |-> <<>>])

LastMessages ==
    {None,
     Some([output |-> <<>>, input_last_reply |-> None]),
     Some([output |-> <<"r">>, input_last_reply |-> None]),
     Some([output |-> <<>>, input_last_reply |-> Some(<<"prev">>)])}

ConfigWith(lm) ==
    [role |-> R1, session |-> None, agent |-> None, rag |-> None, last_message |-> lm]

\* No Input exists yet: the fields hold what a constructor starts from.
InitBlank ==
    /\ raw_paths = <<>> /\ external_cmds = <<>> /\ local_paths = <<>>
    /\ remote_urls = <<>> /\ with_last_reply = FALSE
    /\ files = <<>> /\ error = <<>>
    /\ text = <<>> /\ raw = <<<<>>, <<>>>> /\ patched_text = None
    /\ last_reply = None /\ continue_output = None /\ regenerate = FALSE
    /\ medias = <<>> /\ data_urls = EmptyMap /\ tool_calls = None
    /\ rag_name = None /\ role = R1 /\ with_session = FALSE /\ with_agent = FALSE
    /\ out = None

LifecyclePaths == {<<>>, <<ImgP>>, <<TxtA, UrlMedia>>}

\* An Input is constructed, mutated by its turn and read, while the ambient
\* configuration changes.
Init ==
    /\ pc = "new"
    /\ config = ConfigWith(None)
    /\ world = DefaultWorld
    /\ arg_text \in {<<>>, <<"a">>}
    /\ arg_paths \in LifecyclePaths
    /\ arg_role \in {None, Some(R2)}
    /\ InitBlank

Next ==
    \/ FromStr
    \/ FromFilesClassify
    \/ FromFilesLoad
    \/ FromFilesAssemble
    \/ ClearPatch
    \/ SetText
    \/ SetContinueOutput
    \/ SetRegenerate
    \/ UseEmbeddings
    \/ MergeToolResults
    \/ ConfigUseRole
    \/ ConfigSession
    \/ ConfigAgent
    \/ ConfigRag

Spec == Init /\ [][Next]_vars

\* from_files alone, over every list of references and every answer of the
\* collaborators.
InitFiles ==
    /\ pc = "new"
    /\ config \in {ConfigWith(lm) : lm \in LastMessages}
    /\ world \in Worlds
    /\ arg_text \in {<<>>, <<"hi">>}
    /\ arg_paths \in SeqsUpTo(FileRefs, MaxPaths)
    /\ arg_role = None
    /\ InitBlank

NextFiles ==
    \/ FromFilesClassify
    \/ FromFilesLoad
    \/ FromFilesAssemble

SpecFiles == InitFiles /\ [][NextFiles]_vars

\* The classification of one reference, over every short string.
RefAlphabet == {BACKTICK, "%", "~", "/", "a", "http://"}

InitClassify ==
    /\ pc = "new"
    /\ config = ConfigWith(None)
    /\ world \in {WorldWith(h, CHOOSE c \in CmdOutcomes : c.success) :
                     h \in {None, HomeDir}}
    /\ arg_text = <<>>
    /\ \E s \in SeqsUpTo(RefAlphabet, MaxRefLen) : arg_paths = <<s>>
    /\ arg_role = None
    /\ InitBlank

NextClassify == FromFilesClassify

SpecClassify == InitClassify /\ [][NextClassify]_vars

\* summary() over texts of two runs of characters.
SummaryChars == {"a", "CJK", " ", "\n", "BEL", "ZWJ"}

InitSummary ==
    /\ pc = "ready"
    /\ config = ConfigWith(None)
    /\ world = DefaultWorld
    /\ arg_paths = <<>>
    /\ arg_role = None
    /\ \E c1 \in SummaryChars, c2 \in SummaryChars, n1 \in 0..MaxRun, n2 \in 0..MaxRun :
          arg_text = Rep(c1, n1) \o Rep(c2, n2)
    /\ raw_paths = <<>> /\ external_cmds = <<>> /\ local_paths = <<>>
    /\ remote_urls = <<>> /\ with_last_reply = FALSE
    /\ files = <<>> /\ error = <<>>
    /\ text = arg_text /\ raw = <<arg_text, <<>>>> /\ patched_text = None
    /\ last_reply = None /\ continue_output = None /\ regenerate = FALSE
    /\ medias = <<>> /\ data_urls = EmptyMap /\ tool_calls = None
    /\ rag_name = None /\ role = R1 /\ with_session = FALSE /\ with_agent = FALSE
    /\ out = None

NextSummary == CallSummary

SpecSummary == InitSummary /\ [][NextSummary]_vars

-----------------------------------------------------------------------------
(* Properties *)

Range(q) == {q[i] : i \in DOMAIN q}
Loading == LoadDocuments(external_cmds, local_paths, remote_urls)

\* What one reference loads to when it is the only one given.
LoadedAlone(ref) ==
    LET c == ClassifyPaths(<<ref>>, 1, NoRefs)
    IN  LoadDocuments(c.external_cmds, c.local_paths, c.remote_urls).val

RECURSIVE FilesInReferenceOrder(_, _)
FilesInReferenceOrder(paths, i) ==
    IF i > Len(paths) THEN <<>>
    ELSE LoadedAlone(paths[i]).files \o FilesInReferenceOrder(paths, i + 1)

RECURSIVE MediasInReferenceOrder(_, _)
MediasInReferenceOrder(paths, i) ==
    IF i > Len(paths) THEN <<>>
    ELSE LoadedAlone(paths[i]).medias \o MediasInReferenceOrder(paths, i + 1)

\* C1: once load_documents has succeeded, the text blocks and the medias stand in
\* the order of the references of the original list, whatever their kinds.
C1_OriginalReferenceOrder ==
    pc \in {"assemble", "ready"} =>
        /\ files = FilesInReferenceOrder(arg_paths, 1)
        /\ medias = MediasInReferenceOrder(arg_paths, 1)

IsMediaUrl(url) == Fetch(url).ok /\ Fetch(url).val.extension = MEDIA_URL_EXTENSION

\* The media loads in the order load_documents makes them: <<reference, payload>>.
MediaLoads ==
    LET loc == SelectSeq(ExpandGlobPaths(local_paths), IsImage)
        rem == SelectSeq(remote_urls, IsMediaUrl)
    IN  [i \in 1..Len(loc) |-> <<loc[i], ReadMediaToDataUrl(loc[i]).val>>]
        \o [i \in 1..Len(rem) |-> <<rem[i], Fetch(rem[i]).val.contents>>]

SamePayload(i) == {j \in DOMAIN MediaLoads : MediaLoads[j][2] = MediaLoads[i][2]}
Least(S) == CHOOSE x \in S : \A y \in S : x <= y
Greatest(S) == CHOOSE x \in S : \A y \in S : x >= y

C3_PatchIffRagName ==
    pc = "ready" => (patched_text # None <=> rag_name # None)

\* C3 amended: whenever patched_text is set, rag_name is set (clear_patch clears
\* patched_text alone, so rag_name may be set without patched_text).
C3_PatchImpliesRagName ==
    pc = "ready" => (patched_text # None => rag_name # None)

\* use_embeddings has patched an Input that was regenerated and merged into.
C3_Witness ==
    /\ pc = "ready"
    /\ patched_text # None
    /\ rag_name = Some("rag1")
    /\ regenerate
    /\ tool_calls # None
    /\ continue_output # None

ImageParts == [i \in 1..Len(medias) |-> ImageUrlPart(medias[i])]

\* message_content() as the claims describe it, over the text t.
ContentOver(t) ==
    IF medias = <<>> THEN TextContent(t)
    ELSE ArrayContent((IF t # <<>> THEN <<TextPart(t)>> ELSE <<>>) \o ImageParts)

\* C4: while patched_text is present, text(), summary(), render() and
\* message_content() (its emptiness test included) all work on patched_text.
C4_PatchSupersedesText ==
    (pc = "ready" /\ patched_text # None) =>
        /\ Text = patched_text[1]
        /\ Summary = SummaryOf(patched_text[1])
        /\ MessageContent = ContentOver(patched_text[1])

\* C9: message_content() is a plain text without medias; with medias it is a list
\* with a leading text part exactly when text() is non-empty, then one image part
\* per media in order.
C9_TextPartIffTextNonEmpty ==
    pc = "ready" => MessageContent = ContentOver(Text)

Ellipsis == <<".", ".", ".">>

\* C5: the summary is never wider than the budget of 80; a text whose width, once
\* trimmed and blanked, is within the budget is returned whole, a wider one is cut
\* to a proper prefix followed by the ellipsis; 100 narrow letters give the first
\* 77 and the ellipsis.
C5_SummaryWithinBudget ==
    out # None =>
        LET before == Blanked(Trim(text)) IN
        /\ StrWidthCjk(out[1]) <= 80
        /\ StrWidthCjk(before) <= 80 => out[1] = before
        /\ StrWidthCjk(before) > 80 =>
              \E k \in 0..(Len(before) - 1) : out[1] = SubSeq(before, 1, k) \o Ellipsis
        /\ text = Rep("a", 100) => out[1] = Rep("a", 77) \o Ellipsis

\* The summary of 100 narrow letters has been taken.
C5_Witness ==
    /\ out = Some(Rep("a", 77) \o Ellipsis)
    /\ text = Rep("a", 100)

NoLastReplyFound == <<<<"No last reply found">>>>

NothingToReuse ==
    /\ Sentinel \in Range(arg_paths)
    /\ \/ config.last_message = None
       \/ /\ config.last_message[1].output = <<>>
          /\ config.last_message[1].input_last_reply = None
    /\ files = <<>>
    /\ medias = <<>>

\* C6: from_files ends with "No last reply found" exactly when the loads succeeded,
\* the sentinel was given, no last reply can be resolved and nothing was loaded;
\* whenever the loads succeed otherwise, it returns an Input.
C6_NoLastReplyExactly ==
    pc \in {"ready", "failed"} =>
        /\ (pc = "failed" /\ error = NoLastReplyFound) <=> (Loading.ok /\ NothingToReuse)
        /\ (Loading.ok /\ ~NothingToReuse) => pc = "ready"

\* The sentinel met a last message that has no output and no stored reply.
C6_Witness ==
    /\ pc = "failed"
    /\ error = NoLastReplyFound
    /\ config.last_message # None
    /\ Len(arg_paths) = 2

NoneBut(class) ==
    /\ class = "cmd" \/ external_cmds = <<>>
    /\ class = "local" \/ local_paths = <<>>
    /\ class = "url" \/ remote_urls = <<>>
    /\ (class = "sentinel") <=> with_last_reply

\* C7: every reference falls in exactly one class: a URL-shaped one is remote;
\* otherwise %% is the sentinel; otherwise one longer than 2 bytes between two
\* backticks is a command, stripped of them; anything else is a local path.
C7_ClassificationIsTotal ==
    pc = "load" =>
        LET s == arg_paths[1] IN
        IF IsUrl(s) THEN remote_urls = <<s>> /\ NoneBut("url")
        ELSE IF s = <<"%", "%">> THEN NoneBut("sentinel")
        ELSE IF ByteLen(s) > 2 /\ s[1] = BACKTICK /\ s[Len(s)] = BACKTICK
        THEN external_cmds = <<SubSeq(s, 2, Len(s) - 1)>> /\ NoneBut("cmd")
        ELSE Len(local_paths) = 1 /\ NoneBut("local")

\* A URL that ends in a backtick has been classified.
C7_Witness ==
    /\ pc = "load"
    /\ IsUrl(arg_paths[1])
    /\ arg_paths[1][Len(arg_paths[1])] = BACKTICK
    /\ remote_urls = arg_paths

\* C8: the constructor sets with_session and with_agent (false with an explicit
\* role, otherwise whether a session / an agent is active then), and no later step
\* changes them or the name of the role.
C8_RoleFlagsFixed ==
    [][/\ (pc # "ready" /\ pc' = "ready") =>
             IF arg_role # None
             THEN ~with_session' /\ ~with_agent' /\ role' = arg_role[1]
             ELSE /\ with_session' = (config.session # None)
                  /\ with_agent' = (config.agent # None)
       /\ pc = "ready" =>
             /\ with_session' = with_session
             /\ with_agent' = with_agent
             /\ role'.name = role.name]_vars

\* A regenerated Input has adopted the new default role of its name while the
\* session it was built in has ended, an agent has started and another role is active.
C8_Witness ==
    /\ pc = "ready"
    /\ regenerate
    /\ arg_role = None
    /\ with_session /\ config.session = None
    /\ ~with_agent /\ config.agent # None
    /\ role = R1Hot
    /\ config.role = R2

Reports(cmd) == world.cmd[cmd].spawned /\ ~world.cmd[cmd].success
Succeeds(cmd) == world.cmd[cmd].spawned /\ world.cmd[cmd].success

\* C10: when a command reports failure, from_files returns no Input and nothing
\* that was loaded; the error of the first command to fail carries its text and
\* its stderr, or its stdout when the stderr is empty.
C10_CommandFailureAborts ==
    pc \in {"assemble", "ready", "failed"} =>
        \A i \in DOMAIN external_cmds :
            Reports(external_cmds[i]) =>
                /\ pc = "failed"
                /\ files = <<>> /\ medias = <<>> /\ text = <<>>
                /\ (\A j \in 1..(i - 1) : Succeeds(external_cmds[j])) =>
                      error = <<<<"Failed to load files">>,
                                <<"Failed to run ", BACKTICK>> \o external_cmds[i]
                                \o <<BACKTICK, "\n">>
                                \o (IF world.cmd[external_cmds[i]].stderr # <<>>
                                    THEN world.cmd[external_cmds[i]].stderr
                                    ELSE world.cmd[external_cmds[i]].stdout)>>

\* A command has failed with an empty stderr after another one succeeded.
C10_Witness ==
    /\ pc = "failed"
    /\ external_cmds = <<CmdText2, CmdText1>>
    /\ Reports(CmdText1)
    /\ world.cmd[CmdText1].stderr = <<>>

====
